---------------------------- MODULE Spec2Model ----------------------------
(***************************************************************************)
(* SIR.py: a Streamlit script.  Every widget change re-executes the script *)
(* top to bottom: read the sidebar widgets, build the time grid, call      *)
(* scipy's odeint on SIR_model, derive the peak and R_e(t), render two     *)
(* charts and the numeric summary.                                         *)
(*                                                                         *)
(* Number representation.  The script computes in binary floating point;   *)
(* the model computes in scaled integers (fixed point):                    *)
(*   - a rate (beta, gamma, mu) is a rational [n, d];                      *)
(*   - a compartment value (S, I, R, D) is an integer count of 1/Unit      *)
(*     persons; every product or quotient that yields a compartment value  *)
(*     is rounded toward zero, once per arithmetic operation and in the    *)
(*     order in which the source evaluates it; sums are exact;             *)
(*   - a time is the numerator of a rational over the grid's denominator.  *)
(* odeint (LSODA, adaptive) is library code; it is modelled as one         *)
(* explicit step per grid interval, see odeint below.                      *)
(***************************************************************************)
EXTENDS Integers, Sequences, FiniteSets

VARIABLES pc, N, beta, gamma, mu, no_mortality, days, I0, S0, R0, D0,
          t, sol, max_infected, day_of_peak, Re, rendered, attack, error

vars == <<pc, N, beta, gamma, mu, no_mortality, days, I0, S0, R0, D0,
          t, sol, max_infected, day_of_peak, Re, rendered, attack, error>>

----------------------------------------------------------------------------
(* Bounds of the model *)

\* days is drawn from 1..MaxDays (the slider allows 1..365)
MaxDays == 5
\* compartment values are counted in 1/Unit persons
Unit == 200

(* Program constants *)

\* number_input min_value of N
MinN == 100
\* the rate sliders' finest step is 0.001: rates are held in thousandths
RateDen == 1000
\* linspace(0, days, days * 10)
PointsPerDay == 10

----------------------------------------------------------------------------
(* Arithmetic *)

\* a / b rounded toward zero (b > 0)
Trunc(a, b) == IF a >= 0 THEN a \div b ELSE -((-a) \div b)

\* a / b rounded to the nearest integer (b > 0), as round() does
RoundHalf(a, b) == IF a >= 0 THEN (2 * a + b) \div (2 * b)
                   ELSE -((2 * (-a) + b) \div (2 * b))

Rate(n) == [n |-> n, d |-> RateDen]

\* rate * value, a compartment value
RMul(r, x) == Trunc(r.n * x, r.d)

\* value * value, a compartment value
FMul(x, y) == Trunc(x * y, Unit)

\* the rate scaled by the time interval num/den
Scale(r, num, den) == [n |-> r.n * num, d |-> r.d * den]

Neg(r) == [n |-> -(r.n), d |-> r.d]

----------------------------------------------------------------------------
(* The pure functions of the script *)

Col(rows, k) == [i \in 1..Len(rows) |-> rows[i][k]]

\* SIR_model with the deaths left out of dI/dt
SIR_model_DeathsStayInfected(y, tt, NN, b, g, m) ==
  LET S == y[1]
      I == y[2]
  IN  << Trunc(FMul(RMul(Neg(b), S), I), NN),
         Trunc(FMul(RMul(b, S), I), NN) - RMul(g, I),
         RMul(g, I),
         RMul(m, I) >>

\* SIR_model with the sign of the recovery flow lost in dR/dt and dI/dt
SIR_model_RecoveryReversed(y, tt, NN, b, g, m) ==
  LET S == y[1]
      I == y[2]
  IN  << Trunc(FMul(RMul(Neg(b), S), I), NN),
         Trunc(FMul(RMul(b, S), I), NN) + RMul(g, I) - RMul(m, I),
         -RMul(g, I),
         RMul(m, I) >>

\* SIR_model with the removal terms added to dI/dt instead of subtracted
SIR_model_RemovalAdded(y, tt, NN, b, g, m) ==
  LET S == y[1]
      I == y[2]
  IN  << Trunc(FMul(RMul(Neg(b), S), I), NN),
         RMul(g, I) + RMul(m, I) - Trunc(FMul(RMul(b, S), I), NN),
         RMul(g, I),
         RMul(m, I) >>

\* SIR_model with the minus sign of dS/dt lost
SIR_model_SusceptibleGrows(y, tt, NN, b, g, m) ==
  LET S == y[1]
      I == y[2]
  IN  << Trunc(FMul(RMul(b, S), I), NN),
         Trunc(FMul(RMul(b, S), I), NN) - RMul(g, I) - RMul(m, I),
         RMul(g, I),
         RMul(m, I) >>

\* def SIR_model(y, t, N, beta, gamma, mu): the four derivatives, each
\* expression evaluated left to right as Python does
SIR_model(y, tt, NN, b, g, m) ==
  LET S == y[1]
      I == y[2]
      dSdt == Trunc(FMul(RMul(Neg(b), S), I), NN)
      dIdt == Trunc(FMul(RMul(b, S), I), NN) - RMul(g, I) - RMul(m, I)
      dRdt == RMul(g, I)
      dDdt == RMul(m, I)
  IN  <<dSdt, dIdt, dRdt, dDdt>>

\* linspace asked for one point more (num + 1 points, 1/10 of a day apart
\* when num = 10 * stop)
Linspace_OneMore(start, stop, num) ==
  [i \in 1..(num + 1) |-> start * num + (i - 1) * (stop - start)]

\* np.linspace(start, stop, num), endpoint included: num points, the i-th
\* (from 0) at start + i * (stop - start) / (num - 1).  The result holds the
\* numerators over the denominator num - 1.
Linspace(start, stop, num) ==
  [i \in 1..num |-> start * (num - 1) + (i - 1) * (stop - start)]

\* the denominator of the times of a grid
GridDen(tt) == Len(tt) - 1

\* odeint(func, y0, t, args): the solution sampled at every point of t,
\* the first row being y0.  The library's adaptive multistep method is
\* modelled as one explicit step per grid interval, y + h * func(y).
\* func is linear in the three rates, so h * func(y; b, g, m) is computed
\* as func(y; h*b, h*g, h*m): the increment is then added exactly.
OdeStep(y, tt, k, NN, b, g, m) ==
  LET h  == tt[k + 1] - tt[k]
      dy == SIR_model(y, tt[k], NN, Scale(b, h, GridDen(tt)),
                      Scale(g, h, GridDen(tt)), Scale(m, h, GridDen(tt)))
  IN  <<y[1] + dy[1], y[2] + dy[2], y[3] + dy[3], y[4] + dy[4]>>

RECURSIVE OdeRows(_, _, _, _, _, _)
OdeRows(rows, tt, NN, b, g, m) ==
  IF Len(rows) >= Len(tt) THEN rows
  ELSE OdeRows(Append(rows, OdeStep(rows[Len(rows)], tt, Len(rows), NN, b, g, m)),
               tt, NN, b, g, m)

odeint(y0, tt, NN, b, g, m) == OdeRows(<<y0>>, tt, NN, b, g, m)

\* np.max(a)
RECURSIVE NpMaxFrom(_, _, _)
NpMaxFrom(a, k, best) ==
  IF k > Len(a) THEN best
  ELSE NpMaxFrom(a, k + 1, IF a[k] > best THEN a[k] ELSE best)

NpMax(a) == NpMaxFrom(a, 2, a[1])

\* np.argmax(a): the position of the first maximum (positions count from 1
\* here, from 0 in numpy)
RECURSIVE NpArgmaxFrom(_, _, _)
NpArgmaxFrom(a, k, best) ==
  IF k > Len(a) THEN best
  ELSE NpArgmaxFrom(a, k + 1, IF a[k] > a[best] THEN k ELSE best)

\* argmax keeping the last maximum instead of the first
RECURSIVE NpArgmaxLastFrom(_, _, _)
NpArgmaxLastFrom(a, k, best) ==
  IF k > Len(a) THEN best
  ELSE NpArgmaxLastFrom(a, k + 1, IF a[k] >= a[best] THEN k ELSE best)

NpArgmax_Last(a) == NpArgmaxLastFrom(a, 2, 1)

NpArgmax(a) == NpArgmaxFrom(a, 2, 1)

\* gamma + mu
RatAdd(a, b) == IF a.d = b.d THEN [n |-> a.n + b.n, d |-> a.d]
                ELSE [n |-> a.n * b.d + b.n * a.d, d |-> a.d * b.d]

\* (beta / (gamma + mu)) * (S / N), elementwise over S, for a nonzero
\* divisor.  The quotient beta / (gamma + mu) is kept exact, S / N is a
\* fraction counted in 1/Unit, and so is the result.
ReSeries(b, g, m, S, NN) ==
  LET r == RatAdd(g, m)
      q == [n |-> b.n * r.d, d |-> b.d * r.n]
  IN  [i \in 1..Len(S) |-> Trunc(q.n * Trunc(S[i], NN), q.d)]

\* round((1 - S[-1]/N) * 100, 2), in hundredths of a percent
AttackRate(S, NN) ==
  RoundHalf((NN * Unit - S[Len(S)]) * 100 * 100, NN * Unit)

----------------------------------------------------------------------------
(* The inputs the sidebar widgets can deliver *)

\* number_input(value=1000, min_value=100, max_value=1000000)
NChoices == {MinN, MinN + 50, 2 * MinN}

\* positions of the three rate sliders, in thousandths: the four scenario
\* defaults (lines 34-49) and positions at the ends of the sliders' ranges
RateChoices ==
  { <<300, 50, 20>>,      \* Custom
    <<200, 200, 10>>,     \* Strict lockdown
    <<700, 100, 20>>,     \* No measures
    <<500, 150, 15>>,     \* Progressive vaccination
    <<0, 0, 0>>, <<300, 0, 20>>, <<0, 200, 10>>, <<1000, 1000, 100>> }

\* slider(1, 365, 160), cut at MaxDays
DaysChoices == 1..MaxDays

\* slider(1, N, 1)
I0Choices(NN) == {1, NN \div 2, (3 * NN) \div 4, NN}

\* the positions tried when one session runs the script again and again
SessionNChoices == {MinN}
SessionRateChoices == { <<300, 50, 20>>, <<0, 0, 0>>, <<300, 0, 20>> }
SessionDaysChoices == {1, MaxDays}

----------------------------------------------------------------------------
(* The script, one action per block *)

Init ==
  /\ pc = "widgets"
  /\ N = 0 /\ beta = Rate(0) /\ gamma = Rate(0) /\ mu = Rate(0)
  /\ no_mortality = FALSE /\ days = 0 /\ I0 = 0
  /\ S0 = 0 /\ R0 = 0 /\ D0 = 0
  /\ t = <<>> /\ sol = <<>>
  /\ max_infected = 0 /\ day_of_peak = 0 /\ Re = <<>>
  /\ rendered = {} /\ attack = 0 /\ error = "none"

\* lines 23-65: the sidebar widgets deliver the parameters; the checkbox
\* overrides mu
WidgetsDeliver(Ns, Rs, Ds) ==
  /\ pc = "widgets"
  /\ \E n \in Ns, r \in Rs, nm \in BOOLEAN, d \in Ds :
       \E i \in I0Choices(n) :
         /\ N' = n
         /\ beta' = Rate(r[1])
         /\ gamma' = Rate(r[2])
         /\ no_mortality' = nm
         /\ mu' = IF nm THEN Rate(0) ELSE Rate(r[3])
         /\ days' = d
         /\ I0' = i
  /\ pc' = "initial"
  /\ UNCHANGED <<S0, R0, D0, t, sol, max_infected, day_of_peak, Re,
                 rendered, attack, error>>

ReadWidgets ==
  WidgetsDeliver(NChoices, RateChoices, DaysChoices)

ReadWidgetsSession ==
  WidgetsDeliver(SessionNChoices, SessionRateChoices, SessionDaysChoices)

\* lines 66-68; N and I0 are the integers the widgets deliver, S0, R0 and D0
\* are compartment values, counted in 1/Unit
InitialConditions ==
  /\ pc = "initial"
  /\ S0' = (N - I0) * Unit
  /\ R0' = 0
  /\ D0' = 0
  /\ pc' = "grid"
  /\ UNCHANGED <<N, beta, gamma, mu, no_mortality, days, I0, t, sol,
                 max_infected, day_of_peak, Re, rendered, attack, error>>

\* the grid built once and kept for the runs that follow
TimeGrid_Cached ==
  /\ pc = "grid"
  /\ t' = IF t = <<>> THEN Linspace(0, days, days * PointsPerDay) ELSE t
  /\ pc' = "solve"
  /\ UNCHANGED <<N, beta, gamma, mu, no_mortality, days, I0, S0, R0, D0,
                 sol, max_infected, day_of_peak, Re, rendered, attack, error>>

\* line 80
TimeGrid ==
  /\ pc = "grid"
  /\ t' = Linspace(0, days, days * PointsPerDay)
  /\ pc' = "solve"
  /\ UNCHANGED <<N, beta, gamma, mu, no_mortality, days, I0, S0, R0, D0,
                 sol, max_infected, day_of_peak, Re, rendered, attack, error>>

\* lines 83-85; S, I, R, D are the columns of sol
Solve ==
  /\ pc = "solve"
  /\ sol' = odeint(<<S0, I0 * Unit, R0, D0>>, t, N, beta, gamma, mu)
  /\ pc' = "peak"
  /\ UNCHANGED <<N, beta, gamma, mu, no_mortality, days, I0, S0, R0, D0,
                 t, max_infected, day_of_peak, Re, rendered, attack, error>>

S == Col(sol, 1)
I == Col(sol, 2)
R == Col(sol, 3)
D == Col(sol, 4)

\* lines 88-89
PeakStats ==
  /\ pc = "peak"
  /\ max_infected' = NpMax(I)
  /\ day_of_peak' = t[NpArgmax(I)]
  /\ pc' = "re"
  /\ UNCHANGED <<N, beta, gamma, mu, no_mortality, days, I0, S0, R0, D0,
                 t, sol, Re, rendered, attack, error>>

\* line 92: beta / (gamma + mu) on Python floats raises ZeroDivisionError
\* when the divisor is 0.0; nothing catches it and the run ends there
ReproductionNumber ==
  /\ pc = "re"
  /\ IF RatAdd(gamma, mu).n = 0
     THEN /\ error' = "ZeroDivisionError"
          /\ pc' = "failed"
          /\ Re' = Re
     ELSE /\ Re' = ReSeries(beta, gamma, mu, S, N)
          /\ pc' = "chart"
          /\ error' = error
  /\ UNCHANGED <<N, beta, gamma, mu, no_mortality, days, I0, S0, R0, D0,
                 t, sol, max_infected, day_of_peak, rendered, attack>>

\* the first chart drawn as soon as the peak is known, before R_e
RenderSIRD_BeforeRe ==
  /\ pc = "re"
  /\ "sird_chart" \notin rendered
  /\ rendered' = rendered \cup {"sird_chart"}
  /\ UNCHANGED <<pc, N, beta, gamma, mu, no_mortality, days, I0, S0, R0, D0,
                 t, sol, max_infected, day_of_peak, Re, attack, error>>

\* lines 95-126: the S, I, R (and D) chart with the peak marker
RenderSIRD ==
  /\ pc = "chart"
  /\ rendered' = rendered \cup {"sird_chart"}
  /\ pc' = "chart2"
  /\ UNCHANGED <<N, beta, gamma, mu, no_mortality, days, I0, S0, R0, D0,
                 t, sol, max_infected, day_of_peak, Re, attack, error>>

\* lines 129-141: the R_e(t) chart
RenderRe ==
  /\ pc = "chart2"
  /\ rendered' = rendered \cup {"re_chart"}
  /\ pc' = "summary"
  /\ UNCHANGED <<N, beta, gamma, mu, no_mortality, days, I0, S0, R0, D0,
                 t, sol, max_infected, day_of_peak, Re, attack, error>>

\* lines 146-152: the numeric summaries, the final attack rate among them
RenderSummary ==
  /\ pc = "summary"
  /\ attack' = AttackRate(S, N)
  /\ rendered' = rendered \cup {"summary"}
  /\ pc' = "done"
  /\ UNCHANGED <<N, beta, gamma, mu, no_mortality, days, I0, S0, R0, D0,
                 t, sol, max_infected, day_of_peak, Re, error>>

\* a widget changes: Streamlit executes the script again from the top, on
\* an empty page and in a new namespace
Rerun ==
  /\ pc \in {"done", "failed"}
  /\ pc' = "widgets"
  /\ N' = 0 /\ beta' = Rate(0) /\ gamma' = Rate(0) /\ mu' = Rate(0)
  /\ no_mortality' = FALSE /\ days' = 0 /\ I0' = 0
  /\ S0' = 0 /\ R0' = 0 /\ D0' = 0
  /\ t' = <<>> /\ sol' = <<>>
  /\ max_infected' = 0 /\ day_of_peak' = 0 /\ Re' = <<>>
  /\ rendered' = {} /\ attack' = 0 /\ error' = "none"

\* the same event with the script's names left holding what the last run
\* bound them to (the script executed again in the namespace it ran in), so
\* that any value read before this run assigns it is the last run's
RerunKeepingNames ==
  /\ pc \in {"done", "failed"}
  /\ pc' = "widgets"
  /\ rendered' = {}
  /\ error' = "none"
  /\ UNCHANGED <<N, beta, gamma, mu, no_mortality, days, I0, S0, R0, D0,
                 t, sol, max_infected, day_of_peak, Re, attack>>

Next ==
  \/ ReadWidgets
  \/ InitialConditions
  \/ TimeGrid
  \/ Solve
  \/ PeakStats
  \/ ReproductionNumber
  \/ RenderSIRD
  \/ RenderRe
  \/ RenderSummary
  \/ Rerun

Spec == Init /\ [][Next]_vars

\* one session: the script run again and again on changing parameters
NextSession ==
  \/ ReadWidgetsSession
  \/ InitialConditions
  \/ TimeGrid
  \/ Solve
  \/ PeakStats
  \/ ReproductionNumber
  \/ RenderSIRD
  \/ RenderRe
  \/ RenderSummary
  \/ RerunKeepingNames

SpecSession == Init /\ [][NextSession]_vars

----------------------------------------------------------------------------
(* The core entered directly with a Parameters record, without the widgets: *)
(* lines 66-152 run once on parameters the widgets would not deliver.      *)

CoreI0Choices(NN) == {0, 1, NN, NN + 1}

InitCore ==
  /\ pc = "initial"
  /\ \E n \in NChoices, r \in RateChoices, d \in DaysChoices :
       \E i \in CoreI0Choices(n) :
         /\ N = n
         /\ beta = Rate(r[1]) /\ gamma = Rate(r[2]) /\ mu = Rate(r[3])
         /\ days = d
         /\ I0 = i
  /\ no_mortality = FALSE
  /\ S0 = 0 /\ R0 = 0 /\ D0 = 0
  /\ t = <<>> /\ sol = <<>>
  /\ max_infected = 0 /\ day_of_peak = 0 /\ Re = <<>>
  /\ rendered = {} /\ attack = 0 /\ error = "none"

NextCore ==
  \/ InitialConditions
  \/ TimeGrid
  \/ Solve
  \/ PeakStats
  \/ ReproductionNumber
  \/ RenderSIRD
  \/ RenderRe
  \/ RenderSummary

SpecCore == InitCore /\ [][NextCore]_vars

----------------------------------------------------------------------------
(* Vocabulary of the properties *)

\* the Parameters are valid: N > 0, rates >= 0, days >= 1, 1 <= I0 <= N
ValidParameters ==
  /\ N > 0
  /\ beta.n >= 0 /\ gamma.n >= 0 /\ mu.n >= 0
  /\ days >= 1
  /\ 1 <= I0 /\ I0 <= N

\* the time grid of this run has been built
GridBuilt == pc \in {"solve", "peak", "re", "chart", "chart2", "summary",
                     "done", "failed"}

\* odeint has been called in this run and sol is its result
SolverInvoked == pc \in {"peak", "re", "chart", "chart2", "summary", "done",
                         "failed"}

\* the peak statistics of this run have been computed
PeakComputed == pc \in {"re", "chart", "chart2", "summary", "done", "failed"}

Total(y) == y[1] + y[2] + y[3] + y[4]

----------------------------------------------------------------------------
\* C1 (Conservation): for valid Parameters, at every point of the Time Grid
\* S + I + R + D = N, and at every state of the trajectory the four
\* derivatives SIR_model returns sum to zero.
C1_Conservation ==
  (SolverInvoked /\ ValidParameters) =>
    /\ Len(sol) = Len(t)
    /\ sol[1] = <<(N - I0) * Unit, I0 * Unit, 0, 0>>
    /\ \A k \in 1..Len(sol) :
         /\ Total(sol[k]) = N * Unit
         /\ Total(SIR_model(sol[k], t[k], N, beta, gamma, mu)) = 0

\* a finished run in which people were infected, recovered and died
C1_Witness ==
  /\ pc = "done"
  /\ ValidParameters
  /\ S[Len(sol)] < S[1]
  /\ R[Len(sol)] > 0
  /\ D[Len(sol)] > 0

----------------------------------------------------------------------------
----------------------------------------------------------------------------
\* C5 (Peak correctness): the reported peak value is the maximum of the
\* Infected sequence and the reported peak day is the Time Grid value at
\* the first position holding that maximum.
C5_PeakCorrectness ==
  PeakComputed =>
    /\ \A k \in 1..Len(sol) : I[k] <= max_infected
    /\ \E j \in 1..Len(sol) :
         /\ I[j] = max_infected
         /\ \A k \in 1..(j - 1) : I[k] < max_infected
         /\ day_of_peak = t[j]

\* a run whose Infected sequence holds its maximum at two positions, the
\* first of them after the start
C5_Witness ==
  /\ PeakComputed
  /\ \E j, k \in 1..Len(sol) :
       j < k /\ I[1] < max_infected /\ I[j] = max_infected /\ I[k] = max_infected

----------------------------------------------------------------------------
\* the reproduction number at the start, (beta / (gamma + mu)) * S0 / N,
\* compared with 1 exactly: beta * S0 against (gamma + mu) * N (the three
\* rates are all in thousandths, S0 is counted in 1/Unit)
Re0Above1 == beta.n * S0 > (gamma.n + mu.n) * N * Unit
Re0Below1 == beta.n * S0 < (gamma.n + mu.n) * N * Unit

C6_WitnessBelow ==
  /\ SolverInvoked /\ ValidParameters /\ RatAdd(gamma, mu).n > 0
  /\ Re0Below1 /\ beta.n > 0 /\ S0 > 0
  /\ I[Len(sol)] < I[1]

----------------------------------------------------------------------------
\* C7 as stated (Time Grid shape): strictly increasing from 0 to days, the
\* consecutive points exactly 1/10 of a day apart.
C7_TenthOfADayApart ==
  GridBuilt =>
    /\ t[1] = 0
    /\ t[Len(t)] = days * GridDen(t)
    /\ \A k \in 1..(Len(t) - 1) :
         /\ t[k + 1] > t[k]
         /\ PointsPerDay * (t[k + 1] - t[k]) = GridDen(t)

\* C7 as amended: the Time Grid has 10 * days points, strictly increasing
\* from 0 to days, the consecutive points exactly days / (10 * days - 1) of
\* a day apart, which is more than 1/10 of a day.
C7_GridShape ==
  GridBuilt =>
    /\ Len(t) = PointsPerDay * days
    /\ GridDen(t) = PointsPerDay * days - 1
    /\ t[1] = 0
    /\ t[Len(t)] = days * GridDen(t)
    /\ \A k \in 1..(Len(t) - 1) :
         /\ t[k + 1] > t[k]
         /\ t[k + 1] - t[k] = days
         /\ PointsPerDay * (t[k + 1] - t[k]) > GridDen(t)

\* a grid built for more than one day
C7_Witness ==
  /\ GridBuilt
  /\ days > 1
  /\ Len(t) = PointsPerDay * days

----------------------------------------------------------------------------
----------------------------------------------------------------------------
\* what a computation from the current Parameters alone yields
FreshGrid == Linspace(0, days, days * PointsPerDay)
FreshTrajectory ==
  odeint(<<(N - I0) * Unit, I0 * Unit, 0, 0>>, FreshGrid, N, beta, gamma, mu)

\* C9 (No hidden state): after any sequence of runs, the Trajectory and the
\* Derived Metrics a run produces are those of a computation from the
\* current Parameters alone, whatever the runs before it computed.
C9_NoHiddenState ==
  /\ (pc \in {"done", "failed"}) =>
       /\ t = FreshGrid
       /\ sol = FreshTrajectory
       /\ max_infected = NpMax(Col(FreshTrajectory, 2))
       /\ day_of_peak = FreshGrid[NpArgmax(Col(FreshTrajectory, 2))]
  /\ (pc = "done") =>
       /\ Re = ReSeries(beta, gamma, mu, Col(FreshTrajectory, 1), N)
       /\ attack = AttackRate(Col(FreshTrajectory, 1), N)
       /\ rendered = {"sird_chart", "re_chart", "summary"}
  /\ (pc = "failed") => rendered = {}

\* a run that ended while the names still held what a run of another
\* duration had left in them
C9_Witness ==
  /\ pc = "failed"
  /\ Re # <<>>
  /\ Len(Re) # Len(sol)

----------------------------------------------------------------------------
\* C10: in a run whose core computation ended in an error, no chart and no
\* numeric summary is rendered.
C10_NoChartOnError ==
  (error # "none" \/ pc = "failed") => rendered = {}

\* a run that failed after its trajectory was computed
C10_Witness ==
  /\ pc = "failed"
  /\ error = "ZeroDivisionError"
  /\ Len(sol) = Len(t) /\ Len(sol) > 1

----------------------------------------------------------------------------
\* the computation of R_e has been attempted in this run
ReAttempted == pc \in {"chart", "chart2", "summary", "done", "failed"}

\* C2: when gamma + mu = 0, computing the effective reproduction number
\* fails with DomainError, never with a raw division-by-zero failure.
C2_DomainErrorOnZeroRemoval ==
  (ReAttempted /\ RatAdd(gamma, mu).n = 0) => error = "DomainError"

----------------------------------------------------------------------------
============================================================================
